---- MODULE Spec2Model ----
(***************************************************************************)
(* QTableWidget with a checkbox column and a "select all" header checkbox. *)
(* Two binding variants are modelled side by side:                         *)
(*   "qt6"   src/qt6_table_checkbox.py   (_CheckBoxHeader,                 *)
(*           QTableWidgetWithCheckBox with a guard lock)                   *)
(*   "side6" src/side6_table_checkbox.py (CheckBoxHeader,                  *)
(*           QTableWidgetWithCheckBox without guard)                       *)
(* Rows are numbered as in Python (0-based); row r is rows[r + 1].         *)
(* Qt delivers stateChanged synchronously (direct connection), so every    *)
(* operation is one action that includes all the handlers it fires.        *)
(***************************************************************************)
EXTENDS Integers, Sequences, FiniteSets, TLC

\* ------------------------------------------------------------------ bounds
MaxRows == 3        \* the table never holds more rows than this
MaxCtorRows == 1    \* rows requested from the constructor (no checkbox widget)
MaxSection == 1     \* header sections are 0..MaxSection
MaxColumns == 1     \* columns requested from the constructor
MaxMouseRows == 2   \* rows of the table that receives mouse and key events
MaxItems == 2       \* values handed to one addRow call
MaxPixel == 1       \* horizontal positions asked of columnAt
MaxThreads == 2     \* threads calling into the table
MaxCalls == 1       \* operations one thread starts
MaxSignals == 2     \* stateChanged emissions inside one invocation
MaxDepth == 4       \* frames on one thread's call stack

\* ------------------------------------------------------- program constants
Unchecked == 0      \* Qt.CheckState.Unchecked.value
Checked == 2        \* Qt.CheckState.Checked.value
NoParent == -1      \* sender().parent() is None: the checkbox is in no cell yet
NoRow == -1         \* addRow(row=None)
NoThread == 0       \* table._lock has no owner
NoPress == -1       \* no left-button press is outstanding on the header

Variants == {"qt6", "side6"}
Buttons == {"left", "right"}
Sections == 0..MaxSection

VARIABLES
    variant,        \* which source file is running
    intEqEnum,      \* side6: whether the int `state` can compare equal to Qt.Unchecked
    rows,           \* per row: has it a checkbox widget, and is it checked
    selected,       \* rows holding at least one selected index
    isOn,           \* header.isOn
    mouseDown,      \* header.mouseDown
    hdrPress,       \* section of the outstanding left press on the header
    guard,          \* _checkboxStateChangedLock.locked()
    lastOp,         \* the operation that produced this state, and the state before it
    pressIndex,     \* table._press_index (qt6)
    ctorColumns,    \* the `columns` argument of the constructor
    superColumnCount,   \* the underlying grid's columnCount()
    call,           \* the last call of the column-addressing API and what it passed on
    threads         \* qt6: each thread's call stack, and the owner of table._lock

vars == <<variant, intEqEnum, rows, selected, isOn, mouseDown, hdrPress, guard, lastOp,
          pressIndex, ctorColumns, superColumnCount, call, threads>>

tableVars == <<pressIndex, ctorColumns, superColumnCount, call>>

\* ----------------------------------------------------------------- helpers
Max(a, b) == IF a >= b THEN a ELSE b

NoBox == [box |-> FALSE, checked |-> FALSE]
Box(b) == [box |-> TRUE, checked |-> b]

RowCount(rs) == Len(rs)
RowIndices(rs) == 0..(Len(rs) - 1)

\* QCheckBox.stateChanged carries the new check state as an int
StateOf(b) == IF b THEN Checked ELSE Unchecked

\* QTableWidget.insertRow(row): a new row without cell widget at `row`
InsertRowAt(rs, row) == SubSeq(rs, 1, row) \o <<NoBox>> \o SubSeq(rs, row + 1, Len(rs))

\* the selection model keeps the selected rows selected across an insertion;
\* the inserted row itself is not selected
ShiftOnInsert(sel, row) == {IF r >= row THEN r + 1 ELSE r : r \in sel}

\* QTableWidget.removeRow(row)
RemoveRowAt(rs, row) == SubSeq(rs, 1, row) \o SubSeq(rs, row + 2, Len(rs))

ShiftOnRemove(sel, row) == {IF r > row THEN r - 1 ELSE r : r \in sel \ {row}}

\* --------------------------------------------- the state an operation works on
\* rows, sel, on, lock: the program's state while the operation runs;
\* runs: handler invocations that ran their body, dropped: invocations that
\* returned at the guard (droppedTop: those of them that no handler was the
\* caller of), recomputes: header scans, depth: deepest nesting of handler
\* invocations
Begin == [rows |-> rows, sel |-> selected, on |-> isOn, lock |-> guard,
          runs |-> 0, dropped |-> 0, recomputes |-> 0, depth |-> 0, droppedTop |-> 0]

\* ------------------------------------------------------------------ header
\* _CheckBoxHeader.setOn / CheckBoxHeader.setOn
setOn(st, on) == IF st.on # on THEN [st EXCEPT !.on = on] ELSE st

AnyUnchecked(rs) == \E i \in 1..Len(rs) : rs[i].box /\ ~rs[i].checked

qt6_checkHeader_neverOn(st) ==
    LET s1 == [st EXCEPT !.recomputes = @ + 1]
    IN  IF AnyUnchecked(s1.rows) THEN setOn(s1, FALSE) ELSE s1

\* qt6 _checkHeader: the first unchecked row turns the header off, none turns it on
qt6_checkHeader(st) ==
    LET s1 == [st EXCEPT !.recomputes = @ + 1]
    IN  IF AnyUnchecked(s1.rows) THEN setOn(s1, FALSE) ELSE setOn(s1, TRUE)

\* side6 checkHeader: the first unchecked row returns, none turns the header on
side6_checkHeader(st) ==
    LET s1 == [st EXCEPT !.recomputes = @ + 1]
    IN  IF AnyUnchecked(s1.rows) THEN s1 ELSE setOn(s1, TRUE)

\* ----------------------------------------------------- the change handler
RECURSIVE stateChanged(_, _, _, _)
RECURSIVE setChecked(_, _, _, _)
RECURSIVE propagate(_, _, _, _)

\* any(checkbox.parent() == cellWidget(selected_row, 0) for selected_row in ...):
\* a checkbox placed in row `sender` has that row's cell widget as parent; a
\* checkbox in no cell has parent None, which equals the None that cellWidget
\* returns for a row without widget
senderSelected_anySelection(st, sender) == st.sel # {}

senderSelected(st, sender) ==
    \E r \in st.sel :
        IF sender = NoParent THEN ~st.rows[r + 1].box ELSE r = sender

qt6_onCheckboxStateChanged_noGuard(st, sender, state, level) ==
    LET s1 == [st EXCEPT !.runs = @ + 1, !.depth = Max(@, level)]
        s2 == IF senderSelected(s1, sender)
              THEN propagate(s1, 0, state = Checked, level + 1)
              ELSE s1
    IN  IF state = Unchecked THEN setOn(s2, FALSE) ELSE qt6_checkHeader(s2)

qt6_onCheckboxStateChanged_lockKept(st, sender, state, level) ==
    IF st.lock
    THEN [st EXCEPT !.dropped = @ + 1,
                    !.droppedTop = IF level = 1 THEN @ + 1 ELSE @]
    ELSE LET s1 == [st EXCEPT !.lock = TRUE, !.runs = @ + 1, !.depth = Max(@, level)]
             s2 == IF senderSelected(s1, sender)
                   THEN propagate(s1, 0, state = Checked, level + 1)
                   ELSE s1
         IN  IF state = Unchecked THEN setOn(s2, FALSE) ELSE qt6_checkHeader(s2)

\* qt6 onCheckboxStateChanged
qt6_onCheckboxStateChanged(st, sender, state, level) ==
    IF st.lock
    THEN [st EXCEPT !.dropped = @ + 1,
                    !.droppedTop = IF level = 1 THEN @ + 1 ELSE @]
    ELSE LET s1 == [st EXCEPT !.lock = TRUE, !.runs = @ + 1, !.depth = Max(@, level)]
             s2 == IF senderSelected(s1, sender)
                   THEN propagate(s1, 0, state = Checked, level + 1)
                   ELSE s1
             s3 == IF state = Unchecked THEN setOn(s2, FALSE) ELSE qt6_checkHeader(s2)
         IN  [s3 EXCEPT !.lock = FALSE]

\* side6: `state == Qt.Unchecked` compares an int with an enum member
side6_isUnchecked(state) == intEqEnum /\ state = Unchecked

\* side6 onCheckboxStateChanged
side6_onCheckboxStateChanged(st, sender, state, level) ==
    LET s1 == [st EXCEPT !.runs = @ + 1, !.depth = Max(@, level)]
        s2 == IF senderSelected(s1, sender)
              THEN propagate(s1, 0, state = Checked, level + 1)
              ELSE s1
    IN  IF side6_isUnchecked(state) THEN setOn(s2, FALSE) ELSE side6_checkHeader(s2)

stateChanged_connectedTwice(st, sender, state, level) ==
    IF variant = "qt6"
    THEN qt6_onCheckboxStateChanged(
             qt6_onCheckboxStateChanged(st, sender, state, level), sender, state, level)
    ELSE side6_onCheckboxStateChanged(
             side6_onCheckboxStateChanged(st, sender, state, level), sender, state, level)

\* checkbox.stateChanged.connect(self.onCheckboxStateChanged)
stateChanged(st, sender, state, level) ==
    IF variant = "qt6"
    THEN qt6_onCheckboxStateChanged(st, sender, state, level)
    ELSE side6_onCheckboxStateChanged(st, sender, state, level)

\* QCheckBox.setChecked on the checkbox of row `row`: the signal fires only when
\* the state changes, and its handler runs before setChecked returns
setChecked(st, row, b, level) ==
    IF st.rows[row + 1].checked = b
    THEN st
    ELSE stateChanged([st EXCEPT !.rows[row + 1].checked = b], row, StateOf(b), level)

RECURSIVE propagate_everyRow(_, _, _, _)
propagate_everyRow(st, row, b, level) ==
    IF row >= RowCount(st.rows)
    THEN st
    ELSE propagate_everyRow(IF st.rows[row + 1].box
                            THEN setChecked(st, row, b, level)
                            ELSE st,
                            row + 1, b, level)

\* for selected_row in selected_rows: ... checkbox.setChecked(...)
propagate(st, row, b, level) ==
    IF row >= RowCount(st.rows)
    THEN st
    ELSE propagate(IF row \in st.sel /\ st.rows[row + 1].box
                   THEN setChecked(st, row, b, level)
                   ELSE st,
                   row + 1, b, level)

\* checkAll / selectAll: for row in range(rowCount()): checkbox.setChecked(isOn)
RECURSIVE checkAllFrom(_, _, _)
checkAllFrom(st, row, on) ==
    IF row >= RowCount(st.rows)
    THEN st
    ELSE checkAllFrom(IF st.rows[row + 1].box THEN setChecked(st, row, on, 1) ELSE st,
                      row + 1, on)

checkAll_skipFirst(st, on) == checkAllFrom(st, 1, on)

checkAll(st, on) == checkAllFrom(st, 0, on)

\* QModelIndex values: a cell of the underlying grid, the invalid index that
\* indexAt returns outside every cell, and the attribute not being set at all
InvalidIndex == [row |-> -1, column |-> -1]
NoAttribute == [row |-> -2, column |-> -2]
NoCall == [name |-> "none", args |-> <<>>, superArgs |-> <<>>, superResult |-> <<>>,
           result |-> <<>>]

\* getCheckState: None for a row without checkbox widget
NoState == "None"
getCheckState(rs, row) ==
    IF rs[row + 1].box THEN (IF rs[row + 1].checked THEN "True" ELSE "False") ELSE NoState

\* -------------------------------------------------------------- operations
StateArgs == {"omitted", "True", "False"}   \* addRow's `state` argument

Before == [rows |-> rows, on |-> isOn]

\* what an operation leaves behind: the program's state, and the record of the
\* operation (its arguments, the state before it, what it fired)
FinishE(st, op, row, flag, section, button, emit, log, arg, error) ==
    /\ rows' = st.rows
    /\ selected' = st.sel
    /\ isOn' = st.on
    /\ guard' = st.lock
    /\ threads' = threads
    /\ lastOp' = [op |-> op, row |-> row, flag |-> flag, section |-> section,
                  button |-> button, pressed |-> hdrPress, pre |-> Before,
                  runs |-> st.runs, dropped |-> st.dropped,
                  recomputes |-> st.recomputes, depth |-> st.depth,
                  emit |-> emit, log |-> log, arg |-> arg,
                  droppedTop |-> st.droppedTop, error |-> error]

\* an operation that raises nothing and is no part of the table's mouse, key or
\* column-addressing interface
Finish(st, op, row, flag, section, button, emit, log, arg) ==
    /\ FinishE(st, op, row, flag, section, button, emit, log, arg, "none")
    /\ UNCHANGED tableVars

\* no thread is inside the table, and nobody owns table._lock
Threads == 1..MaxThreads
ThreadsIdle == [stack |-> [t \in Threads |-> <<>>], calls |-> [t \in Threads |-> 0],
                owner |-> NoThread, count |-> 0]

InitCommon ==
    /\ threads = ThreadsIdle
    /\ variant \in Variants
    /\ intEqEnum \in (IF variant = "side6" THEN BOOLEAN ELSE {FALSE})
    /\ rows \in {[i \in 1..n |-> NoBox] : n \in 0..MaxCtorRows}
    /\ selected = {}
    /\ isOn = FALSE
    /\ mouseDown = FALSE
    /\ hdrPress = NoPress
    /\ guard = FALSE
    /\ lastOp = [op |-> "init", row |-> NoRow, flag |-> FALSE, section |-> NoPress,
                 button |-> "none", pressed |-> NoPress,
                 pre |-> [rows |-> rows, on |-> FALSE],
                 runs |-> 0, dropped |-> 0, recomputes |-> 0, depth |-> 0,
                 emit |-> <<>>, log |-> <<>>, arg |-> "none",
                 droppedTop |-> 0, error |-> "none"]
    /\ pressIndex = NoAttribute
    /\ call = NoCall
    /\ ctorColumns \in 0..MaxColumns
    /\ superColumnCount = ctorColumns + 1

\* QTableWidgetWithCheckBox(rows, MaxColumns)
Init == InitCommon /\ ctorColumns = MaxColumns

\* the toolkit's selection model: the user selects any set of rows
Select(S) ==
    /\ S # selected
    /\ Finish([Begin EXCEPT !.sel = S], "select", NoRow, FALSE, NoPress, "none", <<>>, <<>>,
              "none")
    /\ UNCHANGED <<variant, intEqEnum, mouseDown, hdrPress>>

\* addRow(items, state, row): insertRow, a new checkbox connected to the handler
\* and set to `state` (which fires the handler when it becomes checked), then
\* setCellWidget; qt6 ends with _checkHeader, side6 does not
addRowOn_stateIgnored(st, state, row) ==
    LET s1 == [st EXCEPT !.rows = InsertRowAt(@, row), !.sel = ShiftOnInsert(@, row)]
        s3 == [s1 EXCEPT !.rows[row + 1] = Box(FALSE)]
    IN  IF variant = "qt6" THEN qt6_checkHeader(s3) ELSE s3

addRowOn(st, state, row) ==
    LET s1 == [st EXCEPT !.rows = InsertRowAt(@, row), !.sel = ShiftOnInsert(@, row)]
        s2 == IF state THEN stateChanged(s1, NoParent, Checked, 1) ELSE s1
        s3 == [s2 EXCEPT !.rows[row + 1] = Box(state)]
    IN  IF variant = "qt6" THEN qt6_checkHeader(s3) ELSE s3

AddRow(stateArg, rowArg) ==
    LET state == (stateArg = "True")
        row == IF rowArg = NoRow THEN RowCount(rows) ELSE rowArg
    IN  /\ RowCount(rows) < MaxRows
        /\ variant = "side6" => rowArg = NoRow
        /\ Finish(addRowOn(Begin, state, row), "addRow", row, state, NoPress,
                  "none", <<>>, <<>>, stateArg)
        /\ UNCHANGED <<variant, intEqEnum, mouseDown, hdrPress>>

\* removeRow(row): qt6 disconnects the row's checkbox, then removes the row;
\* side6 inherits QTableWidget.removeRow
removeRowLog(rs, row) ==
    IF variant = "qt6" /\ rs[row + 1].box
    THEN <<"disconnect", "super.removeRow">>
    ELSE <<"super.removeRow">>

removeRowOn_recompute(st, row) ==
    qt6_checkHeader([st EXCEPT !.rows = RemoveRowAt(@, row), !.sel = ShiftOnRemove(@, row)])

removeRowOn(st, row) ==
    [st EXCEPT !.rows = RemoveRowAt(@, row), !.sel = ShiftOnRemove(@, row)]

RemoveRow(row) ==
    /\ row \in RowIndices(rows)
    /\ Finish(removeRowOn(Begin, row), "removeRow", row, FALSE, NoPress, "none",
              <<>>, removeRowLog(rows, row), "none")
    /\ UNCHANGED <<variant, intEqEnum, mouseDown, hdrPress>>

setCheckStateOn_noRecompute(st, row, state) ==
    IF st.rows[row + 1].box THEN setChecked(st, row, state, 1) ELSE st

setCheckStateOn_signalsBlocked(st, row, state) ==
    IF st.rows[row + 1].box
    THEN qt6_checkHeader([st EXCEPT !.rows[row + 1].checked = state])
    ELSE st

\* qt6 setCheckState(row, state): setChecked, then _checkHeader
setCheckStateOn(st, row, state) ==
    IF st.rows[row + 1].box
    THEN qt6_checkHeader(setChecked(st, row, state, 1))
    ELSE st

SetCheckState(row, state) ==
    /\ variant = "qt6"
    /\ row \in RowIndices(rows)
    /\ Finish(setCheckStateOn(Begin, row, state), "setCheckState", row, state,
              NoPress, "none", <<>>, <<>>, "none")
    /\ UNCHANGED <<variant, intEqEnum, mouseDown, hdrPress>>

\* a direct call of checkAll(isOn) / selectAll(isOn)
CheckAll(on) ==
    /\ Finish(checkAll(Begin, on), "checkAll", NoRow, on, NoPress, "none", <<>>, <<>>,
              "none")
    /\ UNCHANGED <<variant, intEqEnum, mouseDown, hdrPress>>

\* the user clicks the checkbox of row `row`: QCheckBox toggles itself
toggleOn(st, row) == setChecked(st, row, ~st.rows[row + 1].checked, 1)

UserToggle(row) ==
    /\ row \in RowIndices(rows)
    /\ rows[row + 1].box
    /\ Finish(toggleOn(Begin, row), "toggle", row, ~rows[row + 1].checked,
              NoPress, "none", <<>>, <<>>, "none")
    /\ UNCHANGED <<variant, intEqEnum, mouseDown, hdrPress>>

\* header mousePressEvent: a left press sets mouseDown (the code keeps nothing
\* else about the press)
HeaderPress(button, section) ==
    /\ mouseDown' = (IF button = "left" THEN TRUE ELSE mouseDown)
    /\ hdrPress' = (IF button = "left" THEN section ELSE hdrPress)
    /\ Finish(Begin, "headerPress", NoRow, FALSE, section, button, <<>>, <<>>,
              "none")
    /\ UNCHANGED <<variant, intEqEnum>>

\* header mouseReleaseEvent: a left release clears mouseDown and, on section 0,
\* flips isOn and emits select_all_clicked(isOn), connected to checkAll/selectAll.
\* Qt sends the release of a button to the widget that received its press, so a
\* left release follows a left press somewhere on the header
releaseFlips_anySection(button, section) == button = "left"

releaseFlips(button, section) == button = "left" /\ section = 0

headerReleaseOn(st, button, section) ==
    IF releaseFlips(button, section)
    THEN checkAll([st EXCEPT !.on = ~st.on], ~st.on)
    ELSE st

HeaderRelease(button, section) ==
    /\ button = "left" => hdrPress # NoPress
    /\ mouseDown' = (IF button = "left" THEN FALSE ELSE mouseDown)
    /\ hdrPress' = (IF button = "left" THEN NoPress ELSE hdrPress)
    /\ Finish(headerReleaseOn(Begin, button, section), "headerRelease", NoRow, FALSE,
              section, button,
              IF releaseFlips(button, section) THEN <<~isOn>> ELSE <<>>, <<>>, "none")
    /\ UNCHANGED <<variant, intEqEnum>>

Next ==
    \/ \E S \in SUBSET RowIndices(rows) : Select(S)
    \/ \E stateArg \in StateArgs, rowArg \in {NoRow} \cup 0..RowCount(rows) :
           AddRow(stateArg, rowArg)
    \/ \E row \in RowIndices(rows) : RemoveRow(row)
    \/ \E row \in RowIndices(rows), state \in BOOLEAN : SetCheckState(row, state)
    \/ \E on \in BOOLEAN : CheckAll(on)
    \/ \E row \in RowIndices(rows) : UserToggle(row)
    \/ \E button \in Buttons, section \in Sections : HeaderPress(button, section)
    \/ \E button \in Buttons, section \in Sections : HeaderRelease(button, section)

Spec == Init /\ [][Next]_vars

\* ------------------------------------------- qt6 table mouse and key events
\* the positions an event can carry: every cell of the underlying grid, or none
Indexes == {[row |-> r, column |-> c] : r \in RowIndices(rows), c \in 0..(superColumnCount - 1)}
               \cup {InvalidIndex}
Keys == {"Space", "Other"}

\* QTableWidget's own press handling: a click selects the cell under the pointer
\* and a click outside every cell clears the selection
superMousePress(st, index) ==
    [st EXCEPT !.sel = IF index = InvalidIndex THEN {} ELSE {index.row}]

\* if event.button() == LeftButton: self._press_index = indexAt(...)
pressRecorded(button, index) == IF button = "left" THEN index ELSE pressIndex

mousePressForwarded_always(pi) == TRUE

\* if self._press_index.column() != 0: super().mousePressEvent(event)
mousePressForwarded(pi) == pi.column # 0

\* qt6 mousePressEvent; reading _press_index before any left press raises
MousePress(button, index) ==
    LET pi == pressRecorded(button, index)
    IN  /\ pressIndex' = pi
        /\ IF pi = NoAttribute
           THEN FinishE(Begin, "mousePress", index.row, FALSE, index.column, button,
                        <<>>, <<>>, "none", "AttributeError")
           ELSE IF mousePressForwarded(pi)
           THEN FinishE(superMousePress(Begin, index), "mousePress", index.row, FALSE,
                        index.column, button, <<>>, <<"super.mousePressEvent">>,
                        "none", "none")
           ELSE FinishE(Begin, "mousePress", index.row, FALSE, index.column, button,
                        <<>>, <<"event.ignore">>, "none", "none")
        /\ UNCHANGED <<variant, intEqEnum, mouseDown, hdrPress, ctorColumns,
                       superColumnCount, call>>

releaseToggles_anyPress(button, pi, index) == button = "left" /\ index.column = 0

\* a left release on the cell of the press, in the reserved column
releaseToggles(button, pi, index) ==
    button = "left" /\ index = pi /\ index.column = 0

\* qt6 mouseReleaseEvent. cellWidget(row, 0) is None for a row without widget,
\* and .layout() on it raises. A left release follows a left press on the table
\* (Qt sends it to the widget that received the press).
MouseRelease(button, index) ==
    /\ button = "left" => pressIndex # NoAttribute
    /\ IF releaseToggles(button, pressIndex, index)
       THEN IF rows[index.row + 1].box
            THEN FinishE(toggleOn(Begin, index.row), "mouseRelease", index.row,
                         ~rows[index.row + 1].checked, index.column, button, <<>>,
                         <<"checkbox.toggle", "event.ignore">>, "none", "none")
            ELSE FinishE(Begin, "mouseRelease", index.row, FALSE, index.column, button,
                         <<>>, <<>>, "none", "AttributeError")
       ELSE FinishE(Begin, "mouseRelease", index.row, FALSE, index.column, button,
                    <<>>, <<"super.mouseReleaseEvent">>, "none", "none")
    /\ UNCHANGED <<variant, intEqEnum, mouseDown, hdrPress, tableVars>>

\* qt6 keyPressEvent; `cur` is currentIndex(), which the toolkit moves freely
keyToggles(key, cur) == key = "Space" /\ cur.column = 0

KeyPress(key, cur) ==
    /\ IF keyToggles(key, cur)
       THEN IF rows[cur.row + 1].box
            THEN FinishE(toggleOn(Begin, cur.row), "keyPress", cur.row,
                         ~rows[cur.row + 1].checked, cur.column, key, <<>>,
                         <<"checkbox.toggle", "event.ignore">>, "none", "none")
            ELSE FinishE(Begin, "keyPress", cur.row, FALSE, cur.column, key,
                         <<>>, <<>>, "none", "AttributeError")
       ELSE FinishE(Begin, "keyPress", cur.row, FALSE, cur.column, key,
                    <<>>, <<"super.keyPressEvent">>, "none", "none")
    /\ UNCHANGED <<variant, intEqEnum, mouseDown, hdrPress, tableVars>>

\* QTableWidgetWithCheckBox(rows, MaxColumns) of the qt6 variant
InitMouse == InitCommon /\ variant = "qt6" /\ ctorColumns = MaxColumns

NextMouse ==
    \/ \E S \in SUBSET RowIndices(rows) : Select(S)
    \/ \E stateArg \in StateArgs, rowArg \in {NoRow} \cup 0..RowCount(rows) :
           RowCount(rows) < MaxMouseRows /\ AddRow(stateArg, rowArg)
    \/ \E button \in Buttons, index \in Indexes : MousePress(button, index)
    \/ \E button \in Buttons, index \in Indexes : MouseRelease(button, index)
    \/ \E key \in Keys, cur \in Indexes : KeyPress(key, cur)

SpecMouse == InitMouse /\ [][NextMouse]_vars

\* --------------------------------------------------- column addressing (qt6)
\* a call of a column-addressing method: the arguments it was given, the
\* arguments and the result of the underlying grid's method, and what it returns
Called(name, args, superArgs, superResult, result) ==
    [name |-> name, args |-> args, superArgs |-> superArgs,
     superResult |-> superResult, result |-> result]

\* the underlying grid's column positions: a column, or -1 for none
SuperColumns == (-1)..(superColumnCount - 1)

\* QTableWidget.visualColumn: no section of the header has been moved
super_visualColumn(count, column) == IF column \in 0..(count - 1) THEN column ELSE -1

addRowColumns_grow(count, nItems) == Max(count, nItems + 1)

\* the underlying column count after addRow(items): insertRow and setItem add
\* no column
addRowColumns(count, nItems) == count

\* the columns addRow hands to setItem
addRowItemColumns(nItems) == [i \in 1..nItems |-> i]

cellWidget(row, column) ==
    Called("cellWidget", <<row, column>>, <<row, column + 1>>, <<>>, <<>>)

column(superColumn) ==
    Called("column", <<>>, <<>>, <<superColumn>>, <<superColumn - 1>>)

columnCount(count) == Called("columnCount", <<>>, <<>>, <<count>>, <<count - 1>>)

currentColumn(superColumn) ==
    Called("currentColumn", <<>>, <<>>, <<superColumn>>, <<superColumn - 1>>)

visualColumn(count, col) ==
    LET s == super_visualColumn(count, col + 1)
    IN  Called("visualColumn", <<col>>, <<col + 1>>, <<s>>, <<s>>)

\* x is a horizontal pixel position; superColumn is the column the underlying
\* grid finds at the position it is asked for
columnAt(x, superColumn) ==
    Called("columnAt", <<x>>, <<x + 1>>, <<superColumn>>, <<superColumn>>)

Range(top, left, bottom, right) ==
    [top |-> top, left |-> left, bottom |-> bottom, right |-> right]

\* the selection ranges the underlying grid can report
SuperRanges ==
    {Range(t, l, b, r) : t \in RowIndices(rows), b \in RowIndices(rows),
                         l \in 0..(superColumnCount - 1),
                         r \in 0..(superColumnCount - 1)}
        \cap {u \in [top : Int, left : Int, bottom : Int, right : Int] :
                  u.top <= u.bottom /\ u.left <= u.right}

selectedRange(u) ==
    IF u.left = 0
    THEN Range(u.top, 0, u.bottom, u.right - 1)
    ELSE Range(u.top, u.left - 1, u.bottom, u.right - 1)

selectedRanges(us) ==
    Called("selectedRanges", <<>>, <<>>, us, [i \in 1..Len(us) |-> selectedRange(us[i])])

\* a method that only asks: nothing but the record of the call changes
Query(c) ==
    /\ call' = c
    /\ UNCHANGED <<variant, intEqEnum, rows, selected, isOn, mouseDown, hdrPress,
                   guard, lastOp, pressIndex, ctorColumns, superColumnCount,
                   threads>>

CellWidget(row, col) == variant = "qt6" /\ Query(cellWidget(row, col))
Column(superColumn) == variant = "qt6" /\ Query(column(superColumn))
ColumnCount == Query(columnCount(superColumnCount))
CurrentColumn(superColumn) == variant = "qt6" /\ Query(currentColumn(superColumn))
VisualColumn(col) == variant = "qt6" /\ Query(visualColumn(superColumnCount, col))
ColumnAt(x, superColumn) == variant = "qt6" /\ Query(columnAt(x, superColumn))
SelectedRanges(us) == variant = "qt6" /\ Query(selectedRanges(us))

\* addRow(items, state, row) with Len(items) = nItems
AddRowItems(stateArg, rowArg, nItems) ==
    LET state == (stateArg = "True")
        row == IF rowArg = NoRow THEN RowCount(rows) ELSE rowArg
    IN  /\ RowCount(rows) < MaxRows
        /\ variant = "side6" => rowArg = NoRow
        /\ FinishE(addRowOn(Begin, state, row), "addRow", row, state, NoPress,
                   "none", <<>>, <<>>, stateArg, "none")
        /\ superColumnCount' = addRowColumns(superColumnCount, nItems)
        /\ call' = Called("addRow", <<nItems>>, addRowItemColumns(nItems), <<>>, <<>>)
        /\ UNCHANGED <<variant, intEqEnum, mouseDown, hdrPress, pressIndex, ctorColumns>>

\* QTableWidgetWithCheckBox(rows, columns) of either variant
InitColumns == InitCommon

NextColumns ==
    \/ \E stateArg \in StateArgs, rowArg \in {NoRow} \cup 0..RowCount(rows),
          nItems \in 0..MaxItems : AddRowItems(stateArg, rowArg, nItems)
    \/ \E row \in RowIndices(rows), col \in 0..(superColumnCount - 2) :
           CellWidget(row, col)
    \/ \E superColumn \in SuperColumns : Column(superColumn)
    \/ ColumnCount
    \/ \E superColumn \in SuperColumns : CurrentColumn(superColumn)
    \/ \E col \in 0..(superColumnCount - 2) : VisualColumn(col)
    \/ \E x \in 0..MaxPixel, superColumn \in SuperColumns : ColumnAt(x, superColumn)
    \/ \E us \in {<<>>} \cup {<<u>> : u \in SuperRanges} : SelectedRanges(us)

SpecColumns == InitColumns /\ [][NextColumns]_vars

\* ------------------------------------------------------ clear / clearSpans
\* clear: for _ in range(1, columnCount()): removeColumn(1)
clearColumns(count) == count - Cardinality(1..(count - 1))

\* clear: for _ in range(rowCount()): removeRow(0); the rows take their
\* selection with them
clearOn(st) == [st EXCEPT !.rows = <<>>, !.sel = {}]

\* qt6 clearSpans(): self.clear(); the call records the underlying column
\* count that clear reads
ClearSpans ==
    /\ variant = "qt6"
    /\ FinishE(clearOn(Begin), "clearSpans", NoRow, FALSE, NoPress, "none",
               <<>>, <<"clear">>, "none", "none")
    /\ superColumnCount' = clearColumns(superColumnCount)
    /\ call' = Called("clearSpans", <<>>, <<>>, <<superColumnCount>>, <<>>)
    /\ UNCHANGED <<variant, intEqEnum, mouseDown, hdrPress, pressIndex, ctorColumns>>

InitClear == InitCommon /\ variant = "qt6"

NextClear ==
    \/ \E stateArg \in StateArgs, rowArg \in {NoRow} \cup 0..RowCount(rows),
          nItems \in 0..MaxItems : AddRowItems(stateArg, rowArg, nItems)
    \/ \E S \in SUBSET RowIndices(rows) : Select(S)
    \/ ClearSpans

SpecClear == InitClear /\ [][NextClear]_vars

\* ------------------------------------------------- threads and locks (qt6)
\* A thread's stack holds one frame per method it is inside; pc is where the
\* method stands: "lock" before `with self._lock`, "test" at
\* `if self._checkboxStateChangedLock.locked()`, "acquire" before
\* `with self._checkboxStateChangedLock`, "emit" where it calls setChecked /
\* setCheckState on checkboxes, "check" where it recomputes the header,
\* "release" and "unlock" at the ends of the two with blocks.
ThreadOps == {"addRow", "setCheckState", "checkAll", "removeRow", "onCheckboxStateChanged"}

\* how many checkboxes a method can change, each change emitting stateChanged
emitBudget(fn) ==
    CASE fn \in {"addRow", "setCheckState"} -> 1
      [] fn \in {"checkAll", "onCheckboxStateChanged"} -> MaxSignals
      [] OTHER -> 0

Frame(fn) == [fn |-> fn, pc |-> "lock", emits |-> emitBudget(fn)]

Stack(t) == threads.stack[t]
Top(t) == Stack(t)[Len(Stack(t))]
At(t, pc) == Len(Stack(t)) > 0 /\ Top(t).pc = pc

SetTop(t, f) == [threads.stack EXCEPT ![t][Len(Stack(t))] = f]
Push(stack, t, f) == [stack EXCEPT ![t] = Append(@, f)]
Pop(stack, t) == [stack EXCEPT ![t] = SubSeq(@, 1, Len(@) - 1)]

\* where a method goes once it holds table._lock
afterLock(fn) ==
    CASE fn = "onCheckboxStateChanged" -> "test"
      [] fn \in {"removeRow", "_checkHeader"} -> "unlock"
      [] OTHER -> "emit"

\* where a method goes after its setChecked calls
afterEmit(fn) ==
    CASE fn = "checkAll" -> "unlock"
      [] OTHER -> "check"

\* where a method goes after the header was brought up to date
afterCheck(fn) == IF fn = "onCheckboxStateChanged" THEN "release" ELSE "unlock"

threadsFrame == <<variant, intEqEnum, rows, selected, isOn, mouseDown, hdrPress,
                  lastOp, pressIndex, ctorColumns, superColumnCount, call>>

\* thread t calls a method of the table, or the toolkit delivers a stateChanged
\* signal to the handler in t
Call(t, fn) ==
    /\ Len(Stack(t)) = 0 /\ threads.calls[t] < MaxCalls
    /\ threads' = [threads EXCEPT !.stack = Push(@, t, Frame(fn)), !.calls[t] = @ + 1]
    /\ UNCHANGED <<guard, threadsFrame>>

\* with self._lock: an RLock, free or owned by t
AcquireLock(t) ==
    /\ At(t, "lock") /\ threads.owner \in {NoThread, t}
    /\ threads' = [threads EXCEPT !.owner = t, !.count = @ + 1,
                                  !.stack = SetTop(t, [Top(t) EXCEPT !.pc = afterLock(Top(t).fn)])]
    /\ UNCHANGED <<guard, threadsFrame>>

handlerReturns_never(locked) == FALSE

\* if self._checkboxStateChangedLock.locked(): return
handlerReturns(locked) == locked

TestGuard(t) ==
    /\ At(t, "test")
    /\ threads' = [threads EXCEPT !.stack =
                       SetTop(t, [Top(t) EXCEPT !.pc = IF handlerReturns(guard)
                                                       THEN "unlock" ELSE "acquire"])]
    /\ UNCHANGED <<guard, threadsFrame>>

\* with self._checkboxStateChangedLock: a Lock, which waits while it is held
AcquireGuard(t) ==
    /\ At(t, "acquire") /\ ~guard
    /\ guard' = TRUE
    /\ threads' = [threads EXCEPT !.stack = SetTop(t, [Top(t) EXCEPT !.pc = "emit"])]
    /\ UNCHANGED threadsFrame

\* setChecked changes a checkbox: stateChanged calls the handler before it returns
Emit(t) ==
    /\ At(t, "emit") /\ Top(t).emits > 0 /\ Len(Stack(t)) < MaxDepth
    /\ threads' = [threads EXCEPT !.stack =
                       Push(SetTop(t, [Top(t) EXCEPT !.emits = @ - 1]), t,
                            Frame("onCheckboxStateChanged"))]
    /\ UNCHANGED <<guard, threadsFrame>>

\* the remaining checkboxes already have the state asked for
EmitDone(t) ==
    /\ At(t, "emit")
    /\ threads' = [threads EXCEPT !.stack =
                       SetTop(t, [Top(t) EXCEPT !.pc = afterEmit(Top(t).fn), !.emits = 0])]
    /\ UNCHANGED <<guard, threadsFrame>>

\* self._checkHeader()
CheckHeader(t) ==
    /\ At(t, "check") /\ Len(Stack(t)) < MaxDepth
    /\ threads' = [threads EXCEPT !.stack =
                       Push(SetTop(t, [Top(t) EXCEPT !.pc = afterCheck(Top(t).fn)]), t,
                            Frame("_checkHeader"))]
    /\ UNCHANGED <<guard, threadsFrame>>

\* setCheckState on a row without checkbox; the handler's self._header.setOn(False)
SkipCheck(t) ==
    /\ At(t, "check") /\ Top(t).fn # "addRow"
    /\ threads' = [threads EXCEPT !.stack =
                       SetTop(t, [Top(t) EXCEPT !.pc = afterCheck(Top(t).fn)])]
    /\ UNCHANGED <<guard, threadsFrame>>

\* the end of `with self._checkboxStateChangedLock`
ReleaseGuard(t) ==
    /\ At(t, "release")
    /\ guard' = FALSE
    /\ threads' = [threads EXCEPT !.stack = SetTop(t, [Top(t) EXCEPT !.pc = "unlock"])]
    /\ UNCHANGED threadsFrame

\* the end of `with self._lock`, and the return
ReleaseLock(t) ==
    /\ At(t, "unlock")
    /\ threads' = [threads EXCEPT !.count = @ - 1,
                                  !.owner = IF threads.count = 1 THEN NoThread ELSE @,
                                  !.stack = Pop(@, t)]
    /\ UNCHANGED <<guard, threadsFrame>>

\* the steps of a thread that is inside the table
Run(t) ==
    \/ AcquireLock(t)
    \/ TestGuard(t)
    \/ AcquireGuard(t)
    \/ Emit(t)
    \/ EmitDone(t)
    \/ CheckHeader(t)
    \/ SkipCheck(t)
    \/ ReleaseGuard(t)
    \/ ReleaseLock(t)

InitThreads == InitCommon /\ variant = "qt6" /\ ctorColumns = MaxColumns /\ rows = <<>>

NextThreads ==
    \/ \E t \in Threads, fn \in ThreadOps : Call(t, fn)
    \/ \E t \in Threads : Run(t)

\* every thread that is inside the table keeps being scheduled
SpecThreads == InitThreads /\ [][NextThreads]_vars /\ \A t \in Threads : WF_vars(Run(t))

\* ------------------------------------------------------------------ claims
AllHaveBox(rs) == \A i \in 1..Len(rs) : rs[i].box
AllChecked(rs) == \A i \in 1..Len(rs) : rs[i].box => rs[i].checked
HeaderEvent == lastOp.op \in {"headerPress", "headerRelease"}
LeftRelease == lastOp.op = "headerRelease" /\ lastOp.button = "left"

\* C1: qt6, on a non-empty table whose rows all come from addRow, after any
\* sequence of operations the header is on exactly when every row is checked.
C1_HeaderIffAllChecked ==
    (variant = "qt6" /\ RowCount(rows) >= 1 /\ AllHaveBox(rows))
        => (isOn <=> AllChecked(rows))

\* C2: a header mouse event changes isOn or emits select_all_clicked only when it
\* is a left release on section 0 that follows a left press on section 0.
C2_FlipOnlyOnFullClick ==
    (HeaderEvent /\ (isOn # lastOp.pre.on \/ lastOp.emit # <<>>))
        => (LeftRelease /\ lastOp.section = 0 /\ lastOp.pressed = 0)

\* C3: a left press on section 0 changes nothing but the pressed flag, and a left
\* release on another section after it leaves isOn and every row's checkbox as
\* they were and emits no select-all notification.
C3_ClickCancel ==
    /\ (lastOp.op = "headerPress" /\ lastOp.button = "left" /\ lastOp.section = 0)
           => (isOn = lastOp.pre.on /\ rows = lastOp.pre.rows /\ lastOp.emit = <<>>)
    /\ (LeftRelease /\ lastOp.pressed = 0 /\ lastOp.section # 0)
           => (isOn = lastOp.pre.on /\ rows = lastOp.pre.rows /\ lastOp.emit = <<>>
               /\ lastOp.runs = 0)

C3_Witness ==
    /\ LeftRelease /\ lastOp.pressed = 0 /\ lastOp.section # 0
    /\ RowCount(rows) >= 2 /\ AllHaveBox(rows) /\ ~AllChecked(rows)
    /\ selected # {}

\* C4: qt6, a left release on section 0 emits select-all with the flipped value v;
\* when the click has been handled every row's checkbox equals v and isOn equals
\* v. After a direct checkAll(v) every row's checkbox equals v.
AllRowsAre(rs, v) == \A i \in 1..Len(rs) : rs[i].box => rs[i].checked = v

C4_SelectAll ==
    variant = "qt6" =>
        /\ (LeftRelease /\ lastOp.section = 0)
               => /\ lastOp.emit = <<~lastOp.pre.on>>
                  /\ AllRowsAre(rows, ~lastOp.pre.on)
                  /\ isOn = ~lastOp.pre.on
        /\ lastOp.op = "checkAll" => AllRowsAre(rows, lastOp.flag)

C4_Witness ==
    /\ variant = "qt6" /\ LeftRelease /\ lastOp.section = 0
    /\ RowCount(rows) >= 3 /\ AllHaveBox(rows)
    /\ selected # {} /\ selected # RowIndices(rows)
    /\ ~AllChecked(lastOp.pre.rows)
    /\ lastOp.runs >= 2 /\ lastOp.dropped >= 1

\* C5: toggling the checkbox of a selected row r to s sets the checkbox of every
\* selected row to s and leaves the checkbox of every unselected row unchanged.
Toggled == lastOp.op = "toggle"

C5_BulkPropagation ==
    (Toggled /\ lastOp.row \in selected) =>
        \A r \in RowIndices(rows) :
            IF r \in selected
            THEN rows[r + 1].box => rows[r + 1].checked = lastOp.flag
            ELSE rows[r + 1] = lastOp.pre.rows[r + 1]

C5_Witness ==
    /\ Toggled /\ lastOp.row \in selected
    /\ Cardinality(selected) >= 2 /\ selected # RowIndices(rows)
    /\ AllHaveBox(rows)
    /\ \E r \in selected \ {lastOp.row} : lastOp.pre.rows[r + 1].checked # lastOp.flag
    /\ \E r \in RowIndices(rows) \ selected : rows[r + 1].checked # lastOp.flag

\* C6: toggling the checkbox of a row outside the selection changes that row's
\* checkbox and no other row's.
C6_UnselectedToggleIsLocal ==
    (Toggled /\ lastOp.row \notin selected) =>
        /\ rows[lastOp.row + 1].checked = lastOp.flag
        /\ \A r \in RowIndices(rows) \ {lastOp.row} : rows[r + 1] = lastOp.pre.rows[r + 1]

C6_Witness ==
    /\ Toggled /\ lastOp.row \notin selected
    /\ \E r \in selected : rows[r + 1].box /\ rows[r + 1].checked # lastOp.flag
    /\ \E r \in RowIndices(rows) \ (selected \cup {lastOp.row}) : rows[r + 1].box

\* C7: qt6, when a toggle returns with every row checked the header is on, and
\* when a toggle unchecked a row the header is off.
C7_HeaderFollowsToggle ==
    (variant = "qt6" /\ Toggled) =>
        /\ (AllChecked(rows) => isOn)
        /\ (lastOp.flag = FALSE => ~isOn)

C7_Witness ==
    /\ variant = "qt6" /\ Toggled /\ lastOp.flag
    /\ RowCount(rows) >= 2 /\ AllHaveBox(rows) /\ AllChecked(rows)
    /\ ~lastOp.pre.on /\ isOn

C7_WitnessOff ==
    /\ variant = "qt6" /\ Toggled /\ ~lastOp.flag
    /\ RowCount(rows) >= 2 /\ AllHaveBox(rows)
    /\ lastOp.pre.on /\ ~isOn

\* C8: in both variants, when addRow returns the header is on exactly when every
\* row's checkbox is checked.
C8_AddRowRecomputesHeader ==
    lastOp.op = "addRow" => (isOn <=> AllChecked(rows))

\* C8 restricted to the qt6 variant, whose addRow ends with _checkHeader
C8_AddRowRecomputesHeaderQt6 ==
    (variant = "qt6" /\ lastOp.op = "addRow") => (isOn <=> AllChecked(rows))

\* C9: qt6, removeRow runs no handler and no header scan; the header and the
\* checkbox of every remaining row are as before, and a row that has a checkbox
\* is disconnected before the underlying removal.
C9_RemoveRowFrame ==
    (variant = "qt6" /\ lastOp.op = "removeRow") =>
        /\ isOn = lastOp.pre.on
        /\ rows = RemoveRowAt(lastOp.pre.rows, lastOp.row)
        /\ lastOp.runs = 0 /\ lastOp.dropped = 0 /\ lastOp.recomputes = 0
        /\ lastOp.pre.rows[lastOp.row + 1].box
               => lastOp.log = <<"disconnect", "super.removeRow">>

C9_Witness ==
    /\ variant = "qt6" /\ lastOp.op = "removeRow"
    /\ lastOp.pre.rows[lastOp.row + 1] = Box(FALSE)
    /\ RowCount(rows) >= 2 /\ AllHaveBox(rows) /\ AllChecked(rows)
    /\ ~isOn

\* C10: right after addRow the new row's getCheckState is True when addRow was
\* called with checked = True, and False when it was called with False or
\* without the argument, for every selection and insert position.
C10_NewRowState ==
    lastOp.op = "addRow" =>
        getCheckState(rows, lastOp.row) =
            (IF lastOp.arg = "True" THEN "True" ELSE "False")

C10_Witness ==
    /\ lastOp.op = "addRow" /\ lastOp.arg = "True"
    /\ lastOp.row = 1 /\ RowCount(rows) = 3
    /\ selected = {0, 2}
    /\ ~rows[1].box /\ lastOp.pre.rows[2] = Box(FALSE)
    /\ lastOp.runs = 1
    /\ getCheckState(rows, lastOp.row) = "True"

C10_WitnessOmitted ==
    /\ lastOp.op = "addRow" /\ lastOp.arg = "omitted"
    /\ RowCount(rows) >= 2 /\ lastOp.pre.on
    /\ getCheckState(rows, lastOp.row) = "False"

\* C11: qt6, setCheckState(row, b) on a row that has a checkbox leaves that row's
\* checkbox equal to b and the header on exactly when every row is checked.
BoolName(b) == IF b THEN "True" ELSE "False"

C11_SetCheckState ==
    (variant = "qt6" /\ lastOp.op = "setCheckState" /\ lastOp.pre.rows[lastOp.row + 1].box)
        => /\ getCheckState(rows, lastOp.row) = BoolName(lastOp.flag)
           /\ isOn <=> AllChecked(rows)

C11_Witness ==
    /\ variant = "qt6" /\ lastOp.op = "setCheckState"
    /\ lastOp.pre.rows[lastOp.row + 1] = Box(lastOp.flag)
    /\ RowCount(rows) >= 2 /\ AllHaveBox(rows)
    /\ ~lastOp.pre.on /\ isOn

C11_WitnessChange ==
    /\ variant = "qt6" /\ lastOp.op = "setCheckState"
    /\ lastOp.pre.rows[lastOp.row + 1] = Box(~lastOp.flag)
    /\ lastOp.row \in selected /\ Cardinality(selected) >= 2
    /\ lastOp.pre.on # isOn

\* C18: qt6, a handler invocation made while another one is running returns at
\* the guard: no handler body ever runs nested, and a toggle runs the handler
\* body once, dropping one invocation per other selected row it changed.
ChangedRows == {r \in RowIndices(rows) : rows[r + 1].checked # lastOp.pre.rows[r + 1].checked}

C18_NestedDropped ==
    variant = "qt6" =>
        /\ lastOp.depth <= 1
        /\ Toggled =>
               /\ lastOp.runs = 1
               /\ lastOp.dropped = Cardinality(ChangedRows \ {lastOp.row})
               /\ lastOp.recomputes = (IF lastOp.flag THEN 1 ELSE 0)

C18_Witness ==
    /\ variant = "qt6" /\ Toggled
    /\ lastOp.row \in selected /\ Cardinality(selected) = 3
    /\ lastOp.dropped = 2 /\ lastOp.runs = 1

\* C19: qt6, the guard is free whenever no handler is executing, and no
\* invocation made from outside a handler was ever dropped at the guard.
C19_GuardFreeBetweenOperations ==
    variant = "qt6" =>
        /\ guard = FALSE
        /\ lastOp.droppedTop = 0
        /\ lastOp.op \in {"toggle", "setCheckState", "checkAll", "headerRelease"}
               => (ChangedRows # {} => lastOp.runs >= 1)

C19_Witness ==
    /\ variant = "qt6" /\ lastOp.op = "checkAll"
    /\ lastOp.runs >= 2 /\ lastOp.dropped >= 1
    /\ guard = FALSE

\* C20: in both variants every handler invocation of an operation is caused by one
\* checkbox changing state and no checkbox changes twice, so the invocations of
\* an operation are as many as the checkboxes it changed; the nesting depth is
\* at most 1 with the guard (qt6) and at most the number of selected rows
\* without it (side6), 1 when the changed row is not selected.
ChangeOps == {"toggle", "setCheckState", "checkAll", "headerRelease"}

C20_HandlerChainFinite ==
    lastOp.op \in ChangeOps =>
        /\ lastOp.runs + lastOp.dropped = Cardinality(ChangedRows)
        /\ lastOp.depth <= Max(1, Cardinality(selected))
        /\ variant = "qt6" => lastOp.depth <= 1

C20_Witness ==
    /\ variant = "side6" /\ Toggled
    /\ Cardinality(selected) = 3 /\ lastOp.depth = 3 /\ lastOp.runs = 3

\* C12: qt6, a left press on a reserved-column cell toggles nothing, and a left
\* release on a different cell after it toggles no checkbox and leaves the
\* header as it was.
LeftMouseRelease == lastOp.op = "mouseRelease" /\ lastOp.button = "left"
ReleaseIndex == [row |-> lastOp.row, column |-> lastOp.section]

C12_TableClickCancel ==
    /\ (lastOp.op = "mousePress" /\ lastOp.button = "left" /\ lastOp.section = 0)
           => (rows = lastOp.pre.rows /\ isOn = lastOp.pre.on /\ lastOp.runs = 0)
    /\ (LeftMouseRelease /\ pressIndex.column = 0 /\ ReleaseIndex # pressIndex)
           => /\ rows = lastOp.pre.rows /\ isOn = lastOp.pre.on /\ lastOp.runs = 0
              /\ lastOp.error = "none"
              /\ lastOp.log = <<"super.mouseReleaseEvent">>

C12_Witness ==
    /\ LeftMouseRelease /\ pressIndex.column = 0 /\ ReleaseIndex # pressIndex
    /\ lastOp.section = 0
    /\ pressIndex.row \in RowIndices(rows) /\ rows[pressIndex.row + 1].box
    /\ rows[lastOp.row + 1].box
    /\ selected = {pressIndex.row, lastOp.row}

\* C13: qt6, a left press on the reserved-column cell of row r is recorded and
\* not forwarded; a left release on the same cell toggles r's checkbox once
\* through the handler (a selected r carries the selection with it) and runs no
\* default release handling; press and release on a cell of another column
\* toggle nothing and run the default handling.
C13_TableClickToggles ==
    /\ (lastOp.op = "mousePress" /\ lastOp.button = "left" /\ lastOp.error = "none")
           => /\ pressIndex = ReleaseIndex
              /\ lastOp.log = IF lastOp.section = 0 THEN <<"event.ignore">>
                              ELSE <<"super.mousePressEvent">>
    /\ (LeftMouseRelease /\ ReleaseIndex = pressIndex /\ lastOp.section = 0
            /\ lastOp.pre.rows[lastOp.row + 1].box)
           => /\ rows[lastOp.row + 1].checked = ~lastOp.pre.rows[lastOp.row + 1].checked
              /\ lastOp.runs = 1
              /\ lastOp.log = <<"checkbox.toggle", "event.ignore">>
              /\ \A r \in RowIndices(rows) \ {lastOp.row} :
                     IF lastOp.row \in selected /\ r \in selected /\ rows[r + 1].box
                     THEN rows[r + 1].checked = rows[lastOp.row + 1].checked
                     ELSE rows[r + 1] = lastOp.pre.rows[r + 1]
    /\ (LeftMouseRelease /\ ReleaseIndex = pressIndex /\ lastOp.section # 0)
           => /\ rows = lastOp.pre.rows /\ lastOp.runs = 0
              /\ lastOp.log = <<"super.mouseReleaseEvent">>

C13_Witness ==
    /\ LeftMouseRelease /\ ReleaseIndex = pressIndex /\ lastOp.section = 0
    /\ lastOp.row \in selected /\ Cardinality(selected) >= 2
    /\ AllHaveBox(rows)
    /\ lastOp.dropped >= 1

\* C14: qt6, for a row without checkbox widget getCheckState is None and no
\* press-and-release on its reserved-column cell and no Space key press on it
\* raises an error.
C14_MissingWidgetDegrades ==
    /\ \A r \in RowIndices(rows) : ~rows[r + 1].box => getCheckState(rows, r) = NoState
    /\ (lastOp.op \in {"mouseRelease", "keyPress"} /\ lastOp.row \in RowIndices(rows)
            /\ ~rows[lastOp.row + 1].box)
           => lastOp.error = "none"

\* C15: whatever addRow calls were made (any number of values, any checked
\* flag, any position), columnCount() equals the number of columns requested
\* at construction; the reserved column is not counted.
C15_ColumnCountConstant == columnCount(superColumnCount).result = <<ctorColumns>>

\* an addRow with more values than the table has columns, on a table that
\* already has rows
C15_Witness ==
    /\ call.name = "addRow" /\ call.args[1] > ctorColumns
    /\ RowCount(rows) >= 2 /\ lastOp.op = "addRow"

ReturnsColumn == {"column", "currentColumn", "columnCount", "visualColumn", "columnAt"}
TakesArguments == {"cellWidget", "visualColumn", "columnAt"}
\* the position of the column index among a method's arguments, 0 for none
ColumnArgument(name) ==
    CASE name = "cellWidget" -> 2
      [] name = "visualColumn" -> 1
      [] OTHER -> 0

\* C16: qt6, every overridden method that returns a column index returns the
\* underlying grid's value minus 1, and every overridden method that takes a
\* column index passes column + 1 and its other arguments unchanged.
C16_UniformColumnRemap ==
    /\ call.name \in ReturnsColumn => call.result = <<call.superResult[1] - 1>>
    /\ call.name \in TakesArguments =>
           /\ Len(call.superArgs) = Len(call.args)
           /\ \A i \in 1..Len(call.args) :
                  call.superArgs[i] = IF i = ColumnArgument(call.name)
                                      THEN call.args[i] + 1
                                      ELSE call.args[i]

\* C17: selectedRanges() reports each underlying range with left and right
\* reduced by 1, a left bound on the reserved column becoming 0, and no range
\* it returns has a negative column bound.
C17_SelectedRangesRemap ==
    call.name = "selectedRanges" =>
        /\ Len(call.result) = Len(call.superResult)
        /\ \A i \in 1..Len(call.result) :
               LET u == call.superResult[i]
                   l == call.result[i]
               IN  /\ l.top = u.top /\ l.bottom = u.bottom
                   /\ l.left = (IF u.left = 0 THEN 0 ELSE u.left - 1)
                   /\ l.right = u.right - 1
                   /\ l.left >= 0 /\ l.right >= 0

\* C21: qt6, addRow changes the checkbox state of no row that existed before
\* and keeps the existing rows in their order: without the new row the rows are
\* what they were.
C21_AddRowFrame ==
    (variant = "qt6" /\ lastOp.op = "addRow")
        => RemoveRowAt(rows, lastOp.row) = lastOp.pre.rows

\* C22: qt6, setCheckState(row, b) propagates like a user toggle: when row is
\* selected and its state changes every selected row's checkbox becomes b, and
\* unselected rows keep their state; when row is not selected or already is b
\* no other row changes.
C22_SetCheckStatePropagates ==
    (variant = "qt6" /\ lastOp.op = "setCheckState" /\ lastOp.pre.rows[lastOp.row + 1].box)
        => IF lastOp.row \in selected
               /\ lastOp.pre.rows[lastOp.row + 1].checked # lastOp.flag
           THEN \A r \in RowIndices(rows) :
                    IF r \in selected /\ rows[r + 1].box
                    THEN rows[r + 1].checked = lastOp.flag
                    ELSE rows[r + 1] = lastOp.pre.rows[r + 1]
           ELSE \A r \in RowIndices(rows) \ {lastOp.row} :
                    rows[r + 1] = lastOp.pre.rows[r + 1]

\* a selected row is set, and another selected row follows it
C22_Witness ==
    /\ variant = "qt6" /\ lastOp.op = "setCheckState"
    /\ lastOp.row \in selected /\ selected # RowIndices(rows)
    /\ \E r \in selected \ {lastOp.row} :
           rows[r + 1].box /\ rows[r + 1].checked # lastOp.pre.rows[r + 1].checked

\* an unselected row is set while other rows are selected
C22_WitnessLocal ==
    /\ variant = "qt6" /\ lastOp.op = "setCheckState"
    /\ lastOp.row \notin selected /\ selected # {}
    /\ rows[lastOp.row + 1].box
    /\ rows[lastOp.row + 1].checked # lastOp.pre.rows[lastOp.row + 1].checked
    /\ \E r \in selected : rows[r + 1].box /\ rows[r + 1].checked # lastOp.flag

\* C23: qt6, _press_index is defined whenever a mouse handler reads it (every
\* press, and every left-button release), so no mouse event raises for it.
C23_PressIndexDefined ==
    (\/ lastOp.op = "mousePress"
     \/ lastOp.op = "mouseRelease" /\ lastOp.button = "left")
        => pressIndex # NoAttribute

\* C24: qt6, clearSpans() leaves the row count, the column count and every
\* row's checkbox state unchanged.
C24_ClearSpansFrame ==
    (variant = "qt6" /\ lastOp.op = "clearSpans")
        => /\ RowCount(rows) = RowCount(lastOp.pre.rows)
           /\ superColumnCount = call.superResult[1]
           /\ rows = lastOp.pre.rows

\* C25: qt6, no operation blocks forever: a thread that waits for table._lock
\* or for the guard lock eventually gets it, whatever the other threads do (so
\* no state is reached in which a waiting thread stays waiting).
Waiting(t) == At(t, "lock") \/ At(t, "acquire")

C25_NoBlockForever == \A t \in Threads : Waiting(t) ~> ~Waiting(t)

\* a thread waits for table._lock while another thread, inside a handler that
\* holds the guard lock, runs a nested handler
C25_Witness ==
    \E t \in Threads, u \in Threads :
        /\ t # u /\ At(t, "lock") /\ threads.owner = u /\ guard
        /\ Len(Stack(u)) >= 3 /\ At(u, "test")
        /\ Top(u).fn = "onCheckboxStateChanged"

====
